---- MODULE Spec2Model ----
(***************************************************************************)
(* IPE-competencies-updater: the per-course assignment workflow            *)
(* (ipe_process_orchestrator/assignment_flow.py), the orchestrator          *)
(* (ipe_process_orchestrator/orchestrator.py), the retrying API client      *)
(* they call (api_handler/api_calls.py, known from its tests and the        *)
(* specification) and the remote LMS they talk to.                          *)
(***************************************************************************)
EXTENDS Integers, Sequences, FiniteSets, TLC

VARIABLES
    remote,               \* LMS: course id -> its assignment groups, in response order
    nextId,               \* LMS: the id the next created entity gets
    associations,         \* LMS: ids of the assignments that carry a rubric association
    pc,                   \* position of the IPEAssignmentFlow instance
    course_id,            \* IPEAssignmentFlow.course_id
    lookup_ag_resp_json,  \* _look_up_ipe_assignment: the parsed group list
    ag_i,                 \* _look_up_ipe_assignment: position of the outer for loop
    as_j,                 \* _look_up_ipe_assignment: position of the inner for loop
    ag_list,              \* _look_up_ipe_assignment: ids of the matching groups
    assignment_group_id,  \* start_assignment_flow: the resolved group
    assignment_id,        \* start_assignment_flow: the created assignment
    err,                  \* the exception that left start_assignment_flow
    call,                 \* api_call_with_retries: the request being made
    attempt,              \* api_call_with_retries: underlying requests issued so far
    answers,              \* api_call_with_retries: the responses of those requests
    resp,                 \* api_call_with_retries: what it returned (None or a response)
    ret,                  \* where the workflow continues after the call
    log,                  \* every api_call_with_retries call of the workflows, in order
    info,                 \* logger.info milestones, in order
    pre,                  \* the course's groups when start_assignment_flow was entered
    opc,                  \* position of the orchestrator / of main
    runs,                 \* start_competencies_assigning_process calls so far
    errors,               \* logger.error entries of the orchestrator, in order
    orginal_df,           \* the course-id column of the input table
    filter_df_course_ids, \* the cleaned course list
    clean_fails,          \* input: the table is malformed (cleaning raises)
    rubric_service_up,    \* input: the rubric endpoint would answer
    rubric_fetches,       \* fetch_rubric_api calls so far
    setup_raised,         \* which setup step raised: "", "clean" or "rubrics"
    exit_status,          \* process exit status, -1 while running
    successful            \* test double: what check_if_response_successful said of each answer

vars == <<remote, nextId, associations, pc, course_id, lookup_ag_resp_json, ag_i,
          as_j, ag_list, assignment_group_id, assignment_id, err, call, attempt,
          answers, resp, ret, log, info, pre, opc, runs, errors, orginal_df,
          filter_df_course_ids, clean_fails, rubric_service_up, rubric_fetches,
          setup_raised, exit_status, successful>>

lmsVars == <<remote, nextId, associations>>
flowVars == <<pc, course_id, lookup_ag_resp_json, ag_i, as_j, ag_list,
              assignment_group_id, assignment_id, err, pre, info>>
clientVars == <<call, attempt, answers, resp, ret, log>>
orchVars == <<opc, runs, errors>>
batchVars == <<orginal_df, filter_df_course_ids, clean_fails, rubric_service_up,
               rubric_fetches, setup_raised, exit_status>>
unitVars == <<successful>>

----------------------------------------------------------------------------
\* Bounds of the model.

\* groups a course starts with
MaxGroups == 2
\* assignments a course starts with
MaxAssignments == 2
\* rows of the input table
MaxRows == 2
\* per-course operations the orchestrator is asked for
MaxRuns == 2

----------------------------------------------------------------------------
\* Names and their trimming.  A name is a sequence of tokens; SP is a blank.

SP == " "

ASSIGNMENT_GROUP_NAME == <<"IPE", SP, "Competencies">>

ASSIGNMENT_NAME == <<"IPE", SP, "Competencies", SP, "Attained">>

RUBRIC_ID == "rubric_id"

\* str.lstrip / str.rstrip / str.strip
RECURSIVE lstrip(_)
lstrip(s) == IF s # <<>> /\ Head(s) = SP THEN lstrip(Tail(s)) ELSE s

RECURSIVE rstrip(_)
rstrip(s) == IF s # <<>> /\ s[Len(s)] = SP THEN rstrip(SubSeq(s, 1, Len(s) - 1)) ELSE s

strip(s) == rstrip(lstrip(s))

SeqsUpTo(S, n) == UNION {[1..k -> S] : k \in 0..n}

Last(s) == s[Len(s)]

----------------------------------------------------------------------------
\* The remote LMS.

Courses == {111, 222}

GroupNames == {ASSIGNMENT_GROUP_NAME, ASSIGNMENT_GROUP_NAME \o <<SP>>, <<"Homework">>}

AssignmentNames == {ASSIGNMENT_NAME, <<SP>> \o ASSIGNMENT_NAME, <<"Essay">>}

\* the groups of course c: group i is named names[i] and holds the assignments of
\* items placed in it, in order; ids are unique over all courses
MkCourse(c, names, items) ==
    [i \in 1..Len(names) |->
        [id |-> 100 * c + 10 * i,
         name |-> names[i],
         assignments |->
            LET idx == SelectSeq([k \in 1..Len(items) |-> k], LAMBDA k : items[k].group = i)
            IN  [j \in 1..Len(idx) |-> [id |-> 100 * c + idx[j], name |-> items[idx[j]].name]]]]

\* what a course may hold at first: up to MaxGroups groups, up to MaxAssignments
\* assignments spread over them
CourseStates(c) ==
    {MkCourse(c, names, items) :
        <<names, items>> \in
            {<<n, a>> \in SeqsUpTo(GroupNames, MaxGroups)
                          \X SeqsUpTo([group : 1..MaxGroups, name : AssignmentNames],
                                      MaxAssignments) :
                /\ \A k \in 1..Len(a) : a[k].group <= Len(n)
                /\ \A k \in 1..Len(a) - 1 : a[k].group <= a[k + 1].group}}

\* a course left by an earlier run: one IPE group holding one stale assignment
StaleCourse(c) ==
    MkCourse(c, <<ASSIGNMENT_GROUP_NAME>>, <<[group |-> 1, name |-> ASSIGNMENT_NAME]>>)

FirstFreshId == 100 * 1000

PER_PAGE == 100

GROUP_POSITION == 2000

\* a course with more groups than one page of the group listing holds: PER_PAGE other
\* groups, then the group named 'IPE Competencies'
LongCourse(c) ==
    MkCourse(c, [i \in 1..PER_PAGE |-> <<"Homework">>] \o <<ASSIGNMENT_GROUP_NAME>>, <<>>)

NoValue == [kind |-> "none", id |-> 0, items |-> <<>>]

ListJson(items) == [kind |-> "list", id |-> 0, items |-> items]

ObjectJson(id) == [kind |-> "object", id |-> id, items |-> <<>>]

ErrorJson == [kind |-> "errors", id |-> 0, items |-> <<>>]

\* Optional[Response]: None, or a response with a status code and a body text
None == [status |-> 0, text |-> [wellformed |-> FALSE, value |-> NoValue]]

GoodResponse(value) == [status |-> 200, text |-> [wellformed |-> TRUE, value |-> value]]

ErrorResponse == [status |-> 400, text |-> [wellformed |-> TRUE, value |-> ErrorJson]]

GarbledResponse ==
    [status |-> 200, text |-> [wellformed |-> FALSE, value |-> [NoValue EXCEPT !.kind = "garbage"]]]

AllAssignments(groups) ==
    UNION {{groups[i].assignments[j] : j \in 1..Len(groups[i].assignments)} : i \in 1..Len(groups)}

HasAssignment(groups, aid) == \E a \in AllAssignments(groups) : a.id = aid

HasGroup(groups, gid) == \E i \in 1..Len(groups) : groups[i].id = gid

RemoveAssignment(groups, aid) ==
    [i \in 1..Len(groups) |->
        [groups[i] EXCEPT !.assignments = SelectSeq(@, LAMBDA a : a.id # aid)]]

AddAssignment(groups, gid, a) ==
    [i \in 1..Len(groups) |->
        IF groups[i].id = gid
        THEN [groups[i] EXCEPT !.assignments = Append(@, a)]
        ELSE groups[i]]

FirstN(s, n) == SubSeq(s, 1, IF Len(s) < n THEN Len(s) ELSE n)

\* whether the LMS can carry the request out
CanApply(req, rem) ==
    CASE req.method = "GET" -> TRUE
      [] req.method = "DELETE" -> HasAssignment(rem[req.course], req.target)
      [] req.method = "POST" /\ req.kind = "assignment_groups" -> TRUE
      [] req.method = "POST" /\ req.kind = "assignments" -> HasGroup(rem[req.course], req.target)
      [] OTHER -> HasAssignment(rem[req.course], req.target)

\* the LMS carries the request out: its new state and the entity it answers with
Applied(req, rem, nid, assoc) ==
    CASE req.method = "GET" ->
            [remote |-> rem, nextId |-> nid, associations |-> assoc,
             value |-> ListJson(FirstN(rem[req.course], req.per_page))]
      [] req.method = "DELETE" ->
            [remote |-> [rem EXCEPT ![req.course] = RemoveAssignment(@, req.target)],
             nextId |-> nid, associations |-> assoc \ {req.target},
             value |-> ObjectJson(req.target)]
      [] req.method = "POST" /\ req.kind = "assignment_groups" ->
            [remote |-> [rem EXCEPT ![req.course] =
                            Append(@, [id |-> nid, name |-> req.name, assignments |-> <<>>])],
             nextId |-> nid + 1, associations |-> assoc,
             value |-> ObjectJson(nid)]
      [] req.method = "POST" /\ req.kind = "assignments" ->
            [remote |-> [rem EXCEPT ![req.course] =
                            AddAssignment(@, req.target, [id |-> nid, name |-> req.name])],
             nextId |-> nid + 1, associations |-> assoc,
             value |-> ObjectJson(nid)]
      [] OTHER ->
            [remote |-> rem, nextId |-> nid + 1, associations |-> assoc \cup {req.target},
             value |-> ObjectJson(nid)]

\* How one request may be answered: the LMS carries it out and answers 200 with the
\* entity, the LMS refuses it with 400 and a JSON error body, or the answer is a 200
\* whose body is no JSON (the request never reached the LMS).
Hows == {"applied", "refused", "garbled"}

Respond(req, rem, nid, assoc, how) ==
    IF how = "applied"
    THEN LET a == Applied(req, rem, nid, assoc)
         IN  [remote |-> a.remote, nextId |-> a.nextId, associations |-> a.associations,
              response |-> GoodResponse(a.value)]
    ELSE [remote |-> rem, nextId |-> nid, associations |-> assoc,
          response |-> IF how = "refused" THEN ErrorResponse ELSE GarbledResponse]

----------------------------------------------------------------------------
\* The API client (api_handler/api_calls.py).

\* the fixed attempt ceiling of api_call_with_retries
MAX_ATTEMPTS == 3

\* json.loads: the value of a well-formed text; raises on any other text
json_loads_raises(text) == ~text.wellformed

json_loads(text) == text.value

check_if_response_successful_and_ok(response) ==
    response.status = 200 /\ ~json_loads_raises(response.text)

\* APIHandler.check_if_response_successful: the body parses; the status is not read
check_if_response_successful(response) == ~json_loads_raises(response.text)

\* api_call_with_retries after its n-th request was answered with response
api_call_decision_all_attempts(response, n) ==
    IF n >= MAX_ATTEMPTS
    THEN (IF check_if_response_successful(response) THEN "return" ELSE "none")
    ELSE "retry"

api_call_decision_one_more(response, n) ==
    IF check_if_response_successful(response) THEN "return"
    ELSE IF n > MAX_ATTEMPTS THEN "none"
    ELSE "retry"

api_call_decision_by_status(response, n) ==
    IF check_if_response_successful(response) /\ response.status = 200 THEN "return"
    ELSE IF n >= MAX_ATTEMPTS THEN "none"
    ELSE "retry"

api_call_decision(response, n) ==
    IF check_if_response_successful(response) THEN "return"
    ELSE IF n >= MAX_ATTEMPTS THEN "none"
    ELSE "retry"

\* api_helper.response_none_check: raises when the response is None
response_none_check(response) == response = None

NoCall == [method |-> "", kind |-> "", course |-> 0, target |-> 0, name |-> <<>>,
           position |-> 0, per_page |-> 0, rubric_id |-> ""]

\* one request of api_call_with_retries: the LMS answers, the answer is classified,
\* and the call returns the response, returns None or goes round again
api_call_with_retries ==
    /\ pc = "api_call"
    /\ \E how \in Hows :
          /\ how = "applied" => CanApply(call, remote)
          /\ LET a == Respond(call, remote, nextId, associations, how)
                 n == attempt + 1
                 d == api_call_decision(a.response, n)
             IN  /\ remote' = a.remote
                 /\ nextId' = a.nextId
                 /\ associations' = a.associations
                 /\ attempt' = n
                 /\ answers' = Append(answers, a.response)
                 /\ resp' = IF d = "return" THEN a.response ELSE None
                 /\ pc' = IF d = "retry" THEN "api_call" ELSE ret
    /\ UNCHANGED <<course_id, lookup_ag_resp_json, ag_i, as_j, ag_list,
                   assignment_group_id, assignment_id, err, pre, info,
                   call, ret, log, orchVars, batchVars, unitVars>>

----------------------------------------------------------------------------
\* The assignment workflow (IPEAssignmentFlow).

lookup_request(c) ==
    [NoCall EXCEPT !.method = "GET", !.kind = "assignment_groups", !.course = c,
                   !.per_page = PER_PAGE]

delete_request(c, aid) ==
    [NoCall EXCEPT !.method = "DELETE", !.kind = "assignments", !.course = c, !.target = aid]

create_group_request(c) ==
    [NoCall EXCEPT !.method = "POST", !.kind = "assignment_groups", !.course = c,
                   !.name = ASSIGNMENT_GROUP_NAME, !.position = GROUP_POSITION]

create_assignment_request(c, gid) ==
    [NoCall EXCEPT !.method = "POST", !.kind = "assignments", !.course = c,
                   !.target = gid, !.name = ASSIGNMENT_NAME]

rubric_request_of_group(c, aid, gid, rid) ==
    [NoCall EXCEPT !.method = "POST", !.kind = "rubric_associations", !.course = c,
                   !.target = gid, !.rubric_id = rid]

rubric_request(c, aid, gid, rid) ==
    [NoCall EXCEPT !.method = "POST", !.kind = "rubric_associations", !.course = c,
                   !.target = aid, !.rubric_id = rid]

\* ag['name'].strip() == ASSIGNMENT_GROUP_NAME
is_ipe_group(ag) == strip(ag.name) = ASSIGNMENT_GROUP_NAME

is_ipe_assignment_any(assignment) == TRUE

\* assignment['name'].strip() == ASSIGNMENT_NAME
is_ipe_assignment(assignment) == strip(assignment.name) = ASSIGNMENT_NAME

NotFound == [found |-> FALSE, id |-> 0]

Found(id) == [found |-> TRUE, id |-> id]

lookup_result_last(list) == IF list = <<>> THEN NotFound ELSE Found(list[Len(list)])

\* return ag_list if not ag_list else ag_list[0]
lookup_result(list) == IF list = <<>> THEN NotFound ELSE Found(list[1])

\* if not assignment_group_id: an empty list and 0 are both falsy
needs_group_always(found) == TRUE

needs_group(found) == ~found.found \/ found.id = 0

\* What each step raises on the response of its call ("" when it goes on).
lookup_error(response) ==
    IF response_none_check(response) THEN "None"
    ELSE IF json_loads_raises(response.text) THEN "JSONDecodeError"
    ELSE IF json_loads(response.text).kind # "list" THEN "TypeError"
    ELSE ""

delete_error_unchecked(response) == ""

delete_error(response) == IF response_none_check(response) THEN "None" ELSE ""

create_error(response) ==
    IF response_none_check(response) THEN "None"
    ELSE IF json_loads_raises(response.text) THEN "JSONDecodeError"
    ELSE IF json_loads(response.text).kind # "object" THEN "KeyError"
    ELSE ""

rubric_error(response) == IF response_none_check(response) THEN "None" ELSE ""

NoError == [step |-> "", kind |-> ""]

BeginCall(req, cont) ==
    /\ call' = req
    /\ attempt' = 0
    /\ answers' = <<>>
    /\ resp' = None
    /\ ret' = cont
    /\ log' = Append(log, req)
    /\ pc' = "api_call"

\* the locals of a finished api_call_with_retries are gone once its result is read
EndCall ==
    /\ attempt' = 0
    /\ answers' = <<>>
    /\ resp' = None
    /\ UNCHANGED <<call, ret, log>>

Raise(step, kind) ==
    /\ pc' = "raised"
    /\ err' = [step |-> step, kind |-> kind]
    /\ EndCall

Milestone(event, id) == info' = Append(info, [event |-> event, course |-> course_id, id |-> id])

\* start_assignment_flow up to the lookup call of _look_up_ipe_assignment
BeginFlow(c) ==
    /\ course_id' = c
    /\ pre' = remote[c]
    /\ info' = Append(info, [event |-> "starting", course |-> c, id |-> 0])
    /\ lookup_ag_resp_json' = <<>>
    /\ ag_i' = 1
    /\ as_j' = 1
    /\ ag_list' = <<>>
    /\ assignment_group_id' = NotFound
    /\ assignment_id' = 0
    /\ err' = NoError
    /\ BeginCall(lookup_request(c), "lookup_resp")

start_assignment_flow ==
    /\ pc = "constructed"
    /\ BeginFlow(course_id)
    /\ UNCHANGED <<lmsVars, orchVars, batchVars, unitVars>>

\* _look_up_ipe_assignment from the response of the lookup call to the loop
look_up_response ==
    /\ pc = "lookup_resp"
    /\ IF lookup_error(resp) # ""
       THEN /\ Raise("lookup", lookup_error(resp))
            /\ UNCHANGED <<lookup_ag_resp_json>>
       ELSE /\ lookup_ag_resp_json' = json_loads(resp.text).items
            /\ pc' = "lookup_scan"
            /\ err' = err
            /\ EndCall
    /\ UNCHANGED <<lmsVars, course_id, ag_i, as_j, ag_list, assignment_group_id,
                   assignment_id, pre, info, orchVars, batchVars, unitVars>>

\* one iteration of the loops of _look_up_ipe_assignment
look_up_scan ==
    /\ pc = "lookup_scan"
    /\ ag_i <= Len(lookup_ag_resp_json)
    /\ LET ag == lookup_ag_resp_json[ag_i]
       IN  IF ~is_ipe_group(ag)
           THEN /\ ag_i' = ag_i + 1
                /\ UNCHANGED <<as_j, ag_list, pc, clientVars>>
           ELSE IF as_j > Len(ag.assignments)
           THEN /\ ag_list' = Append(ag_list, ag.id)
                /\ ag_i' = ag_i + 1
                /\ as_j' = 1
                /\ UNCHANGED <<pc, clientVars>>
           ELSE IF is_ipe_assignment(ag.assignments[as_j])
           THEN /\ BeginCall(delete_request(course_id, ag.assignments[as_j].id), "delete_resp")
                /\ UNCHANGED <<ag_i, as_j, ag_list>>
           ELSE /\ as_j' = as_j + 1
                /\ UNCHANGED <<ag_i, ag_list, pc, clientVars>>
    /\ UNCHANGED <<lmsVars, course_id, lookup_ag_resp_json, assignment_group_id,
                   assignment_id, err, pre, info, orchVars, batchVars, unitVars>>

\* _delete_assignment after its call
delete_assignment_response ==
    /\ pc = "delete_resp"
    /\ IF delete_error(resp) # ""
       THEN /\ Raise("delete", delete_error(resp))
            /\ UNCHANGED <<as_j, info>>
       ELSE /\ Milestone("deleted", call.target)
            /\ as_j' = as_j + 1
            /\ pc' = "lookup_scan"
            /\ err' = err
            /\ EndCall
    /\ UNCHANGED <<lmsVars, course_id, lookup_ag_resp_json, ag_i, ag_list,
                   assignment_group_id, assignment_id, pre, orchVars, batchVars, unitVars>>

\* the return of _look_up_ipe_assignment and the branch of start_assignment_flow
look_up_return ==
    /\ pc = "lookup_scan"
    /\ ag_i > Len(lookup_ag_resp_json)
    /\ assignment_group_id' = lookup_result(ag_list)
    /\ IF needs_group(lookup_result(ag_list))
       THEN BeginCall(create_group_request(course_id), "group_resp")
       ELSE BeginCall(create_assignment_request(course_id, lookup_result(ag_list).id),
                      "assignment_resp")
    /\ UNCHANGED <<lmsVars, course_id, lookup_ag_resp_json, ag_i, as_j, ag_list,
                   assignment_id, err, pre, info, orchVars, batchVars, unitVars>>

\* _create_assignment_group after its call, then the call of _create_assignment
create_assignment_group_response ==
    /\ pc = "group_resp"
    /\ IF create_error(resp) # ""
       THEN /\ Raise("create_group", create_error(resp))
            /\ UNCHANGED <<assignment_group_id, info>>
       ELSE /\ assignment_group_id' = Found(json_loads(resp.text).id)
            /\ Milestone("created_group", json_loads(resp.text).id)
            /\ err' = err
            /\ BeginCall(create_assignment_request(course_id, json_loads(resp.text).id),
                         "assignment_resp")
    /\ UNCHANGED <<lmsVars, course_id, lookup_ag_resp_json, ag_i, as_j, ag_list,
                   assignment_id, pre, orchVars, batchVars, unitVars>>

\* _create_assignment after its call, then the call of _assign_ipe_rubrics
create_assignment_response ==
    /\ pc = "assignment_resp"
    /\ IF create_error(resp) # ""
       THEN /\ Raise("create_assignment", create_error(resp))
            /\ UNCHANGED <<assignment_id, info>>
       ELSE /\ assignment_id' = json_loads(resp.text).id
            /\ Milestone("created_assignment", json_loads(resp.text).id)
            /\ err' = err
            /\ BeginCall(rubric_request(course_id, json_loads(resp.text).id,
                                        assignment_group_id.id, RUBRIC_ID),
                         "rubric_resp")
    /\ UNCHANGED <<lmsVars, course_id, lookup_ag_resp_json, ag_i, as_j, ag_list,
                   assignment_group_id, pre, orchVars, batchVars, unitVars>>

\* _assign_ipe_rubrics after its call, and the return of start_assignment_flow
assign_ipe_rubrics_response ==
    /\ pc = "rubric_resp"
    /\ IF rubric_error(resp) # ""
       THEN /\ Raise("rubric", rubric_error(resp))
            /\ UNCHANGED <<info>>
       ELSE /\ Milestone("rubric_assigned", assignment_id)
            /\ pc' = "returned"
            /\ err' = err
            /\ EndCall
    /\ UNCHANGED <<lmsVars, course_id, lookup_ag_resp_json, ag_i, as_j, ag_list,
                   assignment_group_id, assignment_id, pre, orchVars, batchVars, unitVars>>

----------------------------------------------------------------------------
\* start_assignment_flow called on a flow constructed for one course.

InitClient ==
    /\ call = NoCall
    /\ attempt = 0
    /\ answers = <<>>
    /\ resp = None
    /\ ret = ""
    /\ log = <<>>

InitFlowLocals ==
    /\ lookup_ag_resp_json = <<>>
    /\ ag_i = 1
    /\ as_j = 1
    /\ ag_list = <<>>
    /\ assignment_group_id = NotFound
    /\ assignment_id = 0
    /\ err = NoError
    /\ info = <<>>
    /\ pre = <<>>

InitNoBatch ==
    /\ orginal_df = <<>>
    /\ filter_df_course_ids = <<>>
    /\ clean_fails = FALSE
    /\ rubric_service_up = TRUE
    /\ rubric_fetches = 0
    /\ setup_raised = ""
    /\ exit_status = -1
    /\ successful = <<>>

\* the course the workflow under study is constructed for: the first of Courses
FlowCourse == CHOOSE c \in Courses : \A d \in Courses : c <= d

Init ==
    /\ course_id = FlowCourse
    /\ \E groups \in CourseStates(course_id) \cup {LongCourse(course_id)} :
          remote = [c \in Courses |-> IF c = course_id THEN groups ELSE StaleCourse(c)]
    /\ nextId = FirstFreshId
    /\ associations = {}
    /\ pc = "constructed"
    /\ InitFlowLocals
    /\ InitClient
    /\ opc = "caller"
    /\ runs = 0
    /\ errors = <<>>
    /\ InitNoBatch

Next ==
    \/ start_assignment_flow
    \/ api_call_with_retries
    \/ look_up_response
    \/ look_up_scan
    \/ delete_assignment_response
    \/ look_up_return
    \/ create_assignment_group_response
    \/ create_assignment_response
    \/ assign_ipe_rubrics_response

Spec == Init /\ [][Next]_vars

----------------------------------------------------------------------------
\* The orchestrator's per-course operation (IPECompetenciesOrchestrator).

\* except Exception as e: logger.error(e) -- every exception of the workflow is caught
catches_nothing(e) == FALSE

catches(e) == TRUE

\* start_competencies_assigning_process(course) up to the lookup call of the
\* workflow it constructs and starts (through _create_delete_assignment)
start_competencies_assigning_process ==
    /\ opc = "idle"
    /\ runs < MaxRuns
    /\ \E c \in Courses : BeginFlow(c)
    /\ opc' = "assigning"
    /\ runs' = runs + 1
    /\ UNCHANGED <<lmsVars, errors, batchVars, unitVars>>

\* the workflow has returned or raised: _create_delete_assignment passes either on,
\* start_competencies_assigning_process logs the exception and returns
competencies_assigning_return ==
    /\ opc = "assigning"
    /\ pc \in {"returned", "raised"}
    /\ IF pc = "returned"
       THEN /\ opc' = "idle"
            /\ errors' = errors
       ELSE IF catches(err)
       THEN /\ opc' = "idle"
            /\ errors' = Append(errors, [course |-> course_id, step |-> err.step,
                                         kind |-> err.kind])
       ELSE /\ opc' = "crashed"
            /\ errors' = errors
    /\ pc' = "idle"
    /\ UNCHANGED <<lmsVars, course_id, lookup_ag_resp_json, ag_i, as_j, ag_list,
                   assignment_group_id, assignment_id, err, pre, info, clientVars,
                   runs, batchVars, unitVars>>

EmptyCourse == <<>>

InitOrch ==
    /\ remote \in [Courses -> {EmptyCourse} \cup {StaleCourse(c) : c \in Courses}]
    /\ \A c \in Courses : remote[c] \in {EmptyCourse, StaleCourse(c)}
    /\ nextId = FirstFreshId
    /\ associations = {}
    /\ pc = "idle"
    /\ course_id = 0
    /\ InitFlowLocals
    /\ InitClient
    /\ opc = "idle"
    /\ runs = 0
    /\ errors = <<>>
    /\ InitNoBatch

NextOrch ==
    \/ start_competencies_assigning_process
    \/ competencies_assigning_return
    \/ api_call_with_retries
    \/ look_up_response
    \/ look_up_scan
    \/ delete_assignment_response
    \/ look_up_return
    \/ create_assignment_group_response
    \/ create_assignment_response
    \/ assign_ipe_rubrics_response

SpecOrch == InitOrch /\ [][NextOrch]_vars

----------------------------------------------------------------------------
\* The batch: main() calling start_composing_process.

\* a cell of the course-id column: a number, or a placeholder such as "Shell"
Cells == [is_course_id : {TRUE}, value : Courses] \cup {[is_course_id |-> FALSE, value |-> 0]}

\* df_remove_non_course_id: keeps the rows whose course id is a number
df_remove_non_course_id(df) == SelectSeq(df, LAMBDA cell : cell.is_course_id)

\* the names orchestrator.py imports or defines: IPERubricDataMapping is none of them
IPERubricDataMapping_is_bound == FALSE

\* the body of the try of getting_rubrics: what it evaluates to or raises
getting_rubrics_body(up) ==
    IF ~IPERubricDataMapping_is_bound THEN "NameError"
    ELSE IF up THEN "rubric_data"
    ELSE "fetch failed"

getting_rubrics_raised(outcome) == outcome # "rubric_data"

\* except Exception: logger.error(...); sys.exit(1)
setup_error_is_swallowed(outcome) == FALSE

setup_error_exits(outcome) == getting_rubrics_raised(outcome)

\* positional arguments the lambda of start_composing_process passes
LAMBDA_ARGUMENTS == 2

\* positional parameters of start_competencies_assigning_process besides self
PROCESS_PARAMETERS == 1

\* calling the lambda on a row raises TypeError before the method body is entered
lambda_raises == LAMBDA_ARGUMENTS # PROCESS_PARAMETERS

\* start_composing_process: self._clean_up_ipe_dataframe()
clean_up_ipe_dataframe ==
    /\ opc = "main"
    /\ IF clean_fails
       THEN /\ setup_raised' = "clean"
            /\ opc' = "exited"
            /\ exit_status' = 1
            /\ UNCHANGED filter_df_course_ids
       ELSE /\ filter_df_course_ids' = df_remove_non_course_id(orginal_df)
            /\ opc' = "cleaned"
            /\ UNCHANGED <<setup_raised, exit_status>>
    /\ UNCHANGED <<lmsVars, flowVars, clientVars, runs, errors, orginal_df, clean_fails,
                   rubric_service_up, rubric_fetches, unitVars>>

\* start_composing_process: getting_rubrics(), then the apply over the cleaned rows,
\* then the return to main
getting_rubrics_and_apply ==
    /\ opc = "cleaned"
    /\ LET outcome == getting_rubrics_body(rubric_service_up)
       IN  /\ rubric_fetches' = IF outcome = "NameError" THEN rubric_fetches
                                ELSE rubric_fetches + 1
           /\ setup_raised' = IF getting_rubrics_raised(outcome) THEN "rubrics"
                              ELSE setup_raised
           /\ IF setup_error_exits(outcome)
              THEN opc' = "exited" /\ exit_status' = 1
              ELSE IF filter_df_course_ids = <<>>
              THEN opc' = "completed" /\ exit_status' = 0
              ELSE IF lambda_raises
              THEN opc' = "crashed" /\ exit_status' = 1
              ELSE opc' = "applying" /\ exit_status' = exit_status
    /\ UNCHANGED <<lmsVars, flowVars, clientVars, runs, errors, orginal_df,
                   filter_df_course_ids, clean_fails, rubric_service_up, unitVars>>

InitBatch ==
    /\ remote = [c \in Courses |-> StaleCourse(c)]
    /\ nextId = FirstFreshId
    /\ associations = {}
    /\ pc = "idle"
    /\ course_id = 0
    /\ InitFlowLocals
    /\ InitClient
    /\ opc = "main"
    /\ runs = 0
    /\ errors = <<>>
    /\ orginal_df \in SeqsUpTo(Cells, MaxRows)
    /\ filter_df_course_ids = <<>>
    /\ clean_fails \in BOOLEAN
    /\ rubric_service_up \in BOOLEAN
    /\ rubric_fetches = 0
    /\ setup_raised = ""
    /\ exit_status = -1
    /\ successful = <<>>

NextBatch ==
    \/ clean_up_ipe_dataframe
    \/ getting_rubrics_and_apply

SpecBatch == InitBatch /\ [][NextBatch]_vars

----------------------------------------------------------------------------
\* The client on its own, as its tests run it: ApiUtil.api_call is replaced by a
\* double that answers with any status and any body.

MockTexts ==
    {[wellformed |-> TRUE, value |-> ObjectJson(FirstFreshId)],
     [wellformed |-> TRUE, value |-> ErrorJson],
     GarbledResponse.text}

MockResponses == {[status |-> s, text |-> t] : s \in {200, 400}, t \in MockTexts}

\* the requests the client is asked to make
ClientCalls ==
    {lookup_request(FlowCourse),
     delete_request(FlowCourse, 100 * FlowCourse + 1),
     create_group_request(FlowCourse),
     create_assignment_request(FlowCourse, 100 * FlowCourse + 10),
     rubric_request(FlowCourse, 100 * FlowCourse + 1, 100 * FlowCourse + 10, RUBRIC_ID)}

\* one request of api_call_with_retries against the double: the answer is classified
\* by check_if_response_successful, and the call returns it, returns None or retries
api_call_with_retries_patched ==
    /\ opc = "test"
    /\ pc = "api_call"
    /\ \E response \in MockResponses :
          LET n == attempt + 1
              d == api_call_decision(response, n)
          IN  /\ attempt' = n
              /\ answers' = Append(answers, response)
              /\ successful' = Append(successful, check_if_response_successful(response))
              /\ resp' = IF d = "return" THEN response ELSE None
              /\ pc' = IF d = "retry" THEN "api_call" ELSE ret
    /\ UNCHANGED <<lmsVars, course_id, lookup_ag_resp_json, ag_i, as_j, ag_list,
                   assignment_group_id, assignment_id, err, pre, info,
                   call, ret, log, runs, errors, opc, batchVars>>

InitClientTest ==
    /\ remote = [c \in Courses |-> StaleCourse(c)]
    /\ nextId = FirstFreshId
    /\ associations = {}
    /\ course_id = 0
    /\ InitFlowLocals
    /\ call \in ClientCalls
    /\ attempt = 0
    /\ answers = <<>>
    /\ resp = None
    /\ ret = "test_return"
    /\ log = <<call>>
    /\ pc = "api_call"
    /\ opc = "test"
    /\ runs = 0
    /\ errors = <<>>
    /\ InitNoBatch

NextClient ==
    \/ api_call_with_retries_patched

SpecClient == InitClientTest /\ [][NextClient]_vars

----------------------------------------------------------------------------
\* What the claims speak of.

\* str.strip of every name a course of the model may hold
Trimmed == [n \in GroupNames \cup AssignmentNames |-> strip(n)]

Range(seq) == {seq[i] : i \in 1..Len(seq)}

\* positions of the groups whose trimmed name is the group name
IpeGroups(groups) == {i \in 1..Len(groups) : Trimmed[groups[i].name] = ASSIGNMENT_GROUP_NAME}

\* the assignments of that name in those groups
IpeAssignments(groups) ==
    UNION {{a \in Range(groups[i].assignments) : Trimmed[a.name] = ASSIGNMENT_NAME} :
              i \in IpeGroups(groups)}

Ids(groups) == {groups[i].id : i \in 1..Len(groups)} \cup {a.id : a \in AllAssignments(groups)}

\* the calls that change the LMS, in the order they were made
Writes(calls) == SelectSeq(calls, LAMBDA r : r.method # "GET")

WellFormed(response) == response.text.wellformed

\* the workflow is reading the result of an api_call_with_retries call
RespStates == {"lookup_resp", "delete_resp", "group_resp", "assignment_resp", "rubric_resp"}

StepOf(state) ==
    CASE state = "lookup_resp" -> "lookup"
      [] state = "delete_resp" -> "delete"
      [] state = "group_resp" -> "create_group"
      [] state = "assignment_resp" -> "create_assignment"
      [] OTHER -> "rubric"

----------------------------------------------------------------------------
\* C1: whenever start_assignment_flow returns normally, exactly one assignment named
\* ASSIGNMENT_NAME exists in the course's 'IPE Competencies' groups, every assignment
\* of that name that was there before the run is gone, and every DELETE was made
\* before the assignment was created.
C1_ExactlyOneAfterSuccess ==
    pc = "returned" =>
        /\ Cardinality(IpeAssignments(remote[course_id])) = 1
        /\ IpeAssignments(pre) \cap IpeAssignments(remote[course_id]) = {}
        /\ \A i, j \in 1..Len(log) :
              (log[i].method = "DELETE" /\ log[j].method = "POST") => i < j

\* C3: with one 'IPE Competencies' group holding one assignment named ASSIGNMENT_NAME
\* and a usable response to every call, the writes are DELETE of the stale assignment,
\* then POST of a new assignment into that group (no group is created), then POST of
\* the rubric association for the id the create call returned; the one assignment of
\* that name that remains is the new one.
C3_DeleteCreateAttach ==
    (/\ pc = "returned"
     /\ Cardinality(IpeGroups(pre)) = 1
     /\ Cardinality(IpeAssignments(pre)) = 1) =>
        LET g == pre[CHOOSE i \in IpeGroups(pre) : TRUE]
            stale == CHOOSE a \in IpeAssignments(pre) : TRUE
        IN  /\ Writes(log) = <<delete_request(course_id, stale.id),
                                create_assignment_request(course_id, g.id),
                                rubric_request(course_id, assignment_id, g.id, RUBRIC_ID)>>
            /\ assignment_id \notin Ids(pre)
            /\ IpeAssignments(remote[course_id]) = {[id |-> assignment_id, name |-> ASSIGNMENT_NAME]}

\* C4: with no 'IPE Competencies' group and a usable response to every call, the
\* workflow makes no DELETE and exactly three creating calls, in this order: the group
\* (name 'IPE Competencies', position 2000), the assignment in the group whose id the
\* first call returned, the rubric association for the id the second call returned.
C4_ThreeCreations ==
    (pc \notin {"constructed", "idle"} /\ IpeGroups(pre) = {}) =>
        LET w == Writes(log)
            created == {i \in 1..Len(remote[course_id]) :
                           remote[course_id][i].id \notin Ids(pre)}
        IN  /\ \A i \in 1..Len(w) : w[i].method = "POST"
            /\ Len(w) <= 3
            /\ Len(w) >= 1 => /\ w[1].kind = "assignment_groups"
                              /\ w[1].name = ASSIGNMENT_GROUP_NAME
                              /\ w[1].position = 2000
            /\ Len(w) >= 2 => /\ w[2].kind = "assignments"
                              /\ w[2].name = ASSIGNMENT_NAME
                              /\ \E i \in created :
                                    /\ remote[course_id][i].id = w[2].target
                                    /\ remote[course_id][i].name = ASSIGNMENT_GROUP_NAME
            /\ Len(w) >= 3 => /\ w[3].kind = "rubric_associations"
                              /\ w[3].rubric_id = RUBRIC_ID
                              /\ \E i \in created :
                                    /\ remote[course_id][i].id = w[2].target
                                    /\ \E a \in Range(remote[course_id][i].assignments) :
                                          a.id = w[3].target /\ a.name = ASSIGNMENT_NAME
            /\ pc = "returned" => Len(w) = 3
            /\ pc = "raised" => err.kind # ""

C4_Witness ==
    /\ pc = "returned"
    /\ IpeGroups(pre) = {}
    /\ Len(pre) > 0
    /\ Len(Writes(log)) = 3
    /\ assignment_id \in associations

\* the call a step makes
IsCallOf(step, r) ==
    CASE step = "lookup" -> r.method = "GET" /\ r.kind = "assignment_groups"
      [] step = "delete" -> r.method = "DELETE" /\ r.kind = "assignments"
      [] step = "create_group" -> r.method = "POST" /\ r.kind = "assignment_groups"
      [] step = "create_assignment" -> r.method = "POST" /\ r.kind = "assignments"
      [] OTHER -> r.method = "POST" /\ r.kind = "rubric_associations"

\* C5: when the client returns None to a step, the next thing the workflow does is
\* raise to its caller, without another request and without another change of the
\* LMS; the last call of the log of a workflow that raised so is the call that
\* failed, and after a failed delete nothing has been created.
C5_NoneRaises ==
    /\ [][(pc \in RespStates /\ resp = None) =>
              /\ pc' = "raised"
              /\ err' = [step |-> StepOf(pc), kind |-> "None"]
              /\ log' = log
              /\ lmsVars' = lmsVars]_vars
    /\ [](pc = "raised" /\ err.kind = "None" =>
              /\ IsCallOf(err.step, Last(log))
              /\ err.step \in {"lookup", "delete"} =>
                    /\ \A i \in 1..Len(log) : log[i].method # "POST"
                    /\ Ids(remote[course_id]) \subseteq Ids(pre)
                    /\ associations = {})

C5_Witness ==
    /\ pc = "raised"
    /\ err = [step |-> "delete", kind |-> "None"]
    /\ IpeAssignments(pre) # {}
    /\ Len(log) = 2

\* C9: api_call_with_retries never makes more requests than the attempt ceiling, and
\* when all the requests up to the ceiling were answered with a body that does not
\* parse it returns None to the step that called it (the call returns; it does not
\* raise).
C9_BoundedAttempts ==
    /\ attempt <= MAX_ATTEMPTS
    /\ Len(answers) = attempt
    /\ (pc \in RespStates /\ \A i \in 1..Len(answers) : ~WellFormed(answers[i])) =>
          (resp = None /\ attempt = MAX_ATTEMPTS /\ pc = ret)
    /\ (pc = "api_call" /\ attempt = MAX_ATTEMPTS) => WellFormed(Last(answers))

C9_Witness ==
    /\ pc = "rubric_resp"
    /\ resp = None
    /\ attempt = MAX_ATTEMPTS
    /\ \A i \in 1..Len(answers) : ~WellFormed(answers[i])

\* C10: api_call_with_retries returns the first response whose body parses and makes
\* no request after it: while it is still asking, no answer so far parsed; what it
\* returns is the answer to its last request, and the number of requests made is the
\* position of that answer.
C10_FirstSuccessReturned ==
    /\ pc = "api_call" => \A i \in 1..Len(answers) : ~WellFormed(answers[i])
    /\ (pc \in RespStates /\ resp # None) =>
          /\ attempt >= 1
          /\ attempt = Len(answers)
          /\ resp = answers[attempt]
          /\ WellFormed(resp)
          /\ \A i \in 1..attempt - 1 : ~WellFormed(answers[i])

C10_Witness ==
    /\ pc = "lookup_resp"
    /\ attempt = 1
    /\ resp = answers[1]
    /\ resp.status = 200
    /\ WellFormed(resp)

----------------------------------------------------------------------------
\* C6: when the rubric-association call returns None after the assignment was
\* created, the workflow raises; start_competencies_assigning_process logs the error
\* and returns to its caller without another request, and the orchestrator stays in
\* service for the next course.
C6_RubricFailureIsLoggedAndPassed ==
    /\ [][/\ (opc = "assigning" /\ pc = "rubric_resp" /\ resp = None) =>
                /\ pc' = "raised"
                /\ err' = [step |-> "rubric", kind |-> "None"]
                /\ log' = log
          /\ (opc = "assigning" /\ pc = "raised") =>
                /\ opc' = "idle"
                /\ errors' = Append(errors, [course |-> course_id, step |-> err.step,
                                             kind |-> err.kind])
                /\ log' = log
                /\ lmsVars' = lmsVars
                /\ exit_status' = -1]_vars
    /\ [](opc \in {"idle", "assigning"})

C6_Witness ==
    /\ Len(errors) = 1
    /\ errors[1].step = "rubric"
    /\ errors[1].kind = "None"
    /\ \E a \in IpeAssignments(remote[errors[1].course]) :
          a.id >= FirstFreshId /\ a.id \notin associations
    /\ course_id # errors[1].course
    /\ pc = "assignment_resp"
    /\ resp # None
    /\ Last(log).course = course_id

----------------------------------------------------------------------------
\* C7: when input cleaning raises or getting_rubrics raises, the process has ended
\* with a nonzero exit status and no course workflow was started: no call was made
\* and the LMS is as it was.
C7_SetupFailureIsFatal ==
    setup_raised # "" =>
        /\ opc = "exited"
        /\ exit_status > 0
        /\ log = <<>>
        /\ info = <<>>
        /\ runs = 0
        /\ remote = [c \in Courses |-> StaleCourse(c)]

C7_Witness ==
    /\ setup_raised = "rubrics"
    /\ filter_df_course_ids # <<>>
    /\ exit_status = 1

\* the workflows started so far, by course, in order
Started == [i \in 1..Len(SelectSeq(info, LAMBDA m : m.event = "starting")) |->
               SelectSeq(info, LAMBDA m : m.event = "starting")[i].course]

\* C2: in start_composing_process every course of the cleaned list gets its workflow
\* started, whatever the workflows of the courses before it did: once the process has
\* ended on a well-formed table with the rubric endpoint in service, the workflows
\* started are those of the cleaned list, in order.
C2_EveryCourseStarted ==
    (opc \in {"exited", "completed", "crashed"} /\ ~clean_fails /\ rubric_service_up) =>
        Started = [i \in 1..Len(filter_df_course_ids) |-> filter_df_course_ids[i].value]

----------------------------------------------------------------------------
\* C11: check_if_response_successful says True of a response exactly when its body
\* parses, for status 200 and for status 400 alike: a parseable body with status 400
\* is successful, an unparseable body with status 200 is not.
C11_SuccessfulIffParses ==
    /\ Len(successful) = Len(answers)
    /\ \A i \in 1..Len(answers) :
          /\ answers[i].status \in {200, 400}
          /\ successful[i] = TRUE <=> ~json_loads_raises(answers[i].text)
          /\ (answers[i].status = 400 /\ answers[i].text.wellformed) => successful[i] = TRUE
          /\ (answers[i].status = 200 /\ ~answers[i].text.wellformed) => successful[i] = FALSE

C11_Witness ==
    /\ Len(answers) = 3
    /\ answers[1].status = 200 /\ ~answers[1].text.wellformed /\ successful[1] = FALSE
    /\ answers[2].status = 400 /\ ~answers[2].text.wellformed /\ successful[2] = FALSE
    /\ answers[3].status = 400 /\ answers[3].text.wellformed /\ successful[3] = TRUE

\* what api_call_with_retries did after its i-th answer
Retried(i) == Len(answers) > i \/ pc = "api_call"

\* C12 as stated: in api_call_with_retries an attempt below the ceiling whose response
\* has a non-2xx status or a malformed body is retried.
C12_Non2xxOrMalformedRetried ==
    \A i \in 1..Len(answers) :
        (i < MAX_ATTEMPTS /\ (answers[i].status # 200 \/ ~WellFormed(answers[i]))) =>
            Retried(i)

\* C12 amended: an attempt below the ceiling is retried exactly when the body of its
\* response is malformed, whatever the status; a response with a non-2xx status and a
\* parseable body ends the call and is what the call returns.
C12_MalformedRetried ==
    /\ \A i \in 1..Len(answers) :
          i < MAX_ATTEMPTS => (Retried(i) <=> ~WellFormed(answers[i]))
    /\ \A i \in 1..Len(answers) : i >= MAX_ATTEMPTS => ~Retried(i)
    /\ (pc = "test_return" /\ WellFormed(Last(answers))) => resp = Last(answers)
    /\ (pc = "test_return" /\ ~WellFormed(Last(answers))) => resp = None

C12_Witness ==
    /\ pc = "test_return"
    /\ Len(answers) = 2
    /\ answers[1].status = 400 /\ ~WellFormed(answers[1])
    /\ answers[2].status = 400 /\ WellFormed(answers[2])
    /\ resp = answers[2]

----------------------------------------------------------------------------
\* the process has ended
BatchEnded == opc \in {"exited", "completed", "crashed"}

\* C13: in a batch run the courses are processed one after the other: once the run
\* has ended on a well-formed table with the rubric endpoint in service, every row of
\* the cleaned list got exactly one workflow run, in the order of the list, and the
\* requests of the log are those of row 1, then those of row 2, and so on.
C13_SequentialOnePerCourse ==
    (BatchEnded /\ ~clean_fails /\ rubric_service_up) =>
        /\ Len(Started) = Len(filter_df_course_ids)
        /\ \A c \in Courses :
              Cardinality({i \in 1..Len(Started) : Started[i] = c})
                  = Cardinality({i \in 1..Len(filter_df_course_ids) :
                                    filter_df_course_ids[i].value = c})
        /\ \E row \in [1..Len(log) -> 1..Len(filter_df_course_ids)] :
              /\ \A i \in 1..Len(log) : log[i].course = filter_df_course_ids[row[i]].value
              /\ \A i \in 1..Len(log) - 1 : row[i] <= row[i + 1]
              /\ \A k \in 1..Len(filter_df_course_ids) : \E i \in 1..Len(log) : row[i] = k

----------------------------------------------------------------------------
RECURSIVE Flatten(_)
Flatten(seqs) == IF seqs = <<>> THEN <<>> ELSE Head(seqs) \o Flatten(Tail(seqs))

\* the assignments named ASSIGNMENT_NAME of the groups named 'IPE Competencies', group
\* by group in response order
StaleAssignments(groups) ==
    Flatten([i \in 1..Len(groups) |->
                IF Trimmed[groups[i].name] = ASSIGNMENT_GROUP_NAME
                THEN SelectSeq(groups[i].assignments,
                               LAMBDA a : Trimmed[a.name] = ASSIGNMENT_NAME)
                ELSE <<>>])

\* _look_up_ipe_assignment has returned to start_assignment_flow
LookupReturned ==
    \/ pc \in {"group_resp", "assignment_resp", "rubric_resp", "returned"}
    \/ pc = "api_call" /\ ret \in {"group_resp", "assignment_resp", "rubric_resp"}
    \/ pc = "raised" /\ err.step \in {"create_group", "create_assignment", "rubric"}

Calls(calls, method, kind) == SelectSeq(calls, LAMBDA r : r.method = method /\ r.kind = kind)

\* the groups the lookup call is answered with: the first page of the course's groups
Listed(groups) == FirstN(groups, PER_PAGE)

\* C15: once lookup has returned, it has issued exactly one DELETE for every
\* assignment named ASSIGNMENT_NAME in every group it found whose trimmed name is the
\* group name, in response order, and no other DELETE; when it found such groups it
\* has returned the id of the first of them, no group is created and the new
\* assignment is created in that first group; when it found none it has returned
\* 'not found', has issued no DELETE, and the group is created.
C15_LookupDeletesAllReturnsFirst ==
    LookupReturned =>
        LET found == Listed(pre)
            stale == StaleAssignments(found)
            deletes == Calls(log, "DELETE", "assignments")
            made == Calls(log, "POST", "assignments")
        IN  /\ deletes = [j \in 1..Len(stale) |-> delete_request(course_id, stale[j].id)]
            /\ IpeGroups(found) # {} =>
                  LET first == found[CHOOSE i \in IpeGroups(found) :
                                        \A k \in IpeGroups(found) : i <= k]
                  IN  /\ assignment_group_id = Found(first.id)
                      /\ Calls(log, "POST", "assignment_groups") = <<>>
                      /\ \A j \in 1..Len(made) : made[j].target = first.id
                      /\ pc = "returned" =>
                            \E g \in Range(remote[course_id]) :
                                /\ g.id = first.id
                                /\ \E a \in Range(g.assignments) : a.id = assignment_id
            /\ IpeGroups(found) = {} =>
                  /\ deletes = <<>>
                  /\ Calls(log, "POST", "assignment_groups") = <<create_group_request(course_id)>>
                  /\ (pc = "api_call" /\ ret = "group_resp") => assignment_group_id = NotFound
            /\ Len(made) <= 1

C15_Witness ==
    /\ pc = "returned"
    /\ Cardinality(IpeGroups(pre)) = 2
    /\ Len(Calls(log, "DELETE", "assignments")) = 2
    /\ \A i \in 1..Len(pre) : Len(pre[i].assignments) = 1
    /\ \E a \in Range(remote[course_id][1].assignments) : a.id = assignment_id

----------------------------------------------------------------------------
\* the groups of that name a course holds, by id
IpeGroupIds(groups) == {groups[i].id : i \in IpeGroups(groups)}

\* C16 as stated: start_assignment_flow issues the create-group call exactly when the
\* course has no group whose trimmed name is 'IPE Competencies', and at most once; a
\* course that has such a group, wherever it sits in the group list, has the same
\* groups of that name after the run.
C16_GroupCreatedIffNone ==
    /\ Len(Calls(log, "POST", "assignment_groups")) <= 1
    /\ LookupReturned =>
          (Calls(log, "POST", "assignment_groups") # <<>> <=> IpeGroups(pre) = {})
    /\ (pc \notin {"constructed", "idle"} /\ IpeGroups(pre) # {}) =>
          IpeGroupIds(remote[course_id]) = IpeGroupIds(pre)

\* C16 amended: the same of the groups the lookup call is answered with, the first
\* PER_PAGE groups of the course: the create-group call is issued exactly when none of
\* them has that name, and at most once; a course with such a group among them has
\* the same groups of that name after the run.
C16_GroupCreatedIffNoneListed ==
    /\ Len(Calls(log, "POST", "assignment_groups")) <= 1
    /\ LookupReturned =>
          (Calls(log, "POST", "assignment_groups") # <<>> <=> IpeGroups(Listed(pre)) = {})
    /\ ~LookupReturned => Calls(log, "POST", "assignment_groups") = <<>>
    /\ (pc \notin {"constructed", "idle"} /\ IpeGroups(Listed(pre)) # {}) =>
          IpeGroupIds(remote[course_id]) = IpeGroupIds(pre)

C16_Witness ==
    /\ pc = "returned"
    /\ IpeGroups(pre) = {2}
    /\ Trimmed[pre[2].name] # pre[2].name
    /\ Calls(log, "POST", "assignment_groups") = <<>>
    /\ IpeGroupIds(remote[course_id]) = {pre[2].id}

----------------------------------------------------------------------------
\* C17: the workflow logs a milestone, and returns normally, only when the step took
\* effect in the LMS: an assignment logged as deleted is gone, a group or assignment
\* logged as created is there, the assignment logged as rubric-assigned carries the
\* association; so a non-2xx answer with a parseable body to one of these calls never
\* ends in a run reported as successful.
C17_SuccessOnlyIfEffect ==
    /\ \A k \in 1..Len(info) :
          /\ info[k].event = "deleted" => ~HasAssignment(remote[info[k].course], info[k].id)
          /\ info[k].event = "created_group" => HasGroup(remote[info[k].course], info[k].id)
          /\ info[k].event = "rubric_assigned" => info[k].id \in associations
    /\ pc = "returned" =>
          /\ HasAssignment(remote[course_id], assignment_id)
          /\ assignment_id \in associations
          /\ \A a \in IpeAssignments(pre) : ~HasAssignment(remote[course_id], a.id)

\* C18: whatever earlier runs on the course did, the run that returns normally leaves
\* in the course's 'IPE Competencies' groups exactly one assignment named
\* ASSIGNMENT_NAME: the one this run created, carrying the rubric association.
C18_SuccessfulRunLeavesOne ==
    (opc = "assigning" /\ pc = "returned") =>
        /\ IpeAssignments(remote[course_id]) = {[id |-> assignment_id, name |-> ASSIGNMENT_NAME]}
        /\ assignment_id \notin Ids(pre)
        /\ associations \cap {a.id : a \in AllAssignments(remote[course_id])} = {assignment_id}

\* the groups of a course as of the start of the run, with the assignments the
\* workflow may delete left out (the entities a run creates have fresh ids)
Untouchable(groups) ==
    [i \in 1..Len(groups) |->
        [groups[i] EXCEPT !.assignments =
            IF Trimmed[groups[i].name] = ASSIGNMENT_GROUP_NAME
            THEN SelectSeq(@, LAMBDA a : a.id < FirstFreshId /\ Trimmed[a.name] # ASSIGNMENT_NAME)
            ELSE SelectSeq(@, LAMBDA a : a.id < FirstFreshId)]]

\* C19: a workflow run for course c addresses course c in every request; every
\* assignment it asks to delete is named ASSIGNMENT_NAME (trimmed) and sits in a group
\* named 'IPE Competencies' (trimmed); the groups the course had are all still there,
\* in place, with their ids and names and with every other assignment they held; the
\* other courses are as they were.
C19_NothingOutsideTarget ==
    pc \notin {"constructed", "idle"} =>
        LET mine == remote[course_id]
            deletable == {a.id : a \in IpeAssignments(pre)}
        IN  /\ \A k \in 1..Len(log) :
                  /\ log[k].course = course_id
                  /\ log[k].method = "DELETE" =>
                        (log[k].kind = "assignments" /\ log[k].target \in deletable)
            /\ Len(mine) >= Len(pre)
            /\ \A i \in 1..Len(pre) : mine[i].id = pre[i].id /\ mine[i].name = pre[i].name
            /\ SubSeq(Untouchable(mine), 1, Len(pre)) = Untouchable(pre)
            /\ \A c \in Courses \ {course_id} : remote[c] = StaleCourse(c)

C19_Witness ==
    /\ pc = "returned"
    /\ Len(pre) = 2
    /\ Cardinality(IpeGroups(pre)) = 1
    /\ \E a \in AllAssignments(pre) : a \notin IpeAssignments(pre) /\ Trimmed[a.name] = ASSIGNMENT_NAME
    /\ \E k \in 1..Len(log) : log[k].method = "DELETE"
    /\ Cardinality(AllAssignments(remote[course_id])) = 2

====
